---- MODULE Spec2Model ----
(***************************************************************************)
(* AddC: on-line agglomerative clustering (addc/base.py), its centroid     *)
(* value types (addc/centroid.py) and the Gaussian kernel and the kernel-  *)
(* induced distance (addc/kernel.py).                                      *)
(*                                                                         *)
(* Points are one-dimensional.  A Python float is modelled in fixed point: *)
(* the integer v stands for the real v / Scale, and three further values   *)
(* stand for +inf, -inf and nan.  A result whose magnitude leaves the      *)
(* modelled range is the value Ovf; no action produces a state holding it. *)
(***************************************************************************)
EXTENDS Integers, Sequences, FiniteSets, TLC

\* ------------------------------------------------------------------ bounds
Scale == 100        \* fixed-point resolution: v stands for v / Scale
MaxMag == 1000000   \* largest finite magnitude of the model (fixed point)
MaxCoord == 2       \* incoming points are 0 .. MaxCoord
MaxKmax == 3        \* engines are built with kmax in 1 .. MaxKmax
MaxPoints == 4      \* points handed to one engine
MaxFar == 6         \* far-apart incoming points are 0 .. MaxFar

\* ------------------------------------------------------- float arithmetic
PosInf == MaxMag + 1
NegInf == 0 - (MaxMag + 1)
NaN == MaxMag + 2
Ovf == MaxMag + 3

IsFin(x) == x >= 0 - MaxMag /\ x <= MaxMag
IsInf(x) == x = PosInf \/ x = NegInf

Abs(x) == IF x < 0 THEN 0 - x ELSE x
Sgn(x) == IF x < 0 THEN 0 - 1 ELSE IF x > 0 THEN 1 ELSE 0

\* an integer result, or Ovf beyond the modelled range
Clamp(v) == IF Abs(v) > MaxMag THEN Ovf ELSE v

\* float + float
FAdd(a, b) ==
    IF a = Ovf \/ b = Ovf THEN Ovf
    ELSE IF a = NaN \/ b = NaN THEN NaN
    ELSE IF IsInf(a) /\ IsInf(b) THEN (IF a = b THEN a ELSE NaN)
    ELSE IF IsInf(a) THEN a
    ELSE IF IsInf(b) THEN b
    ELSE Clamp(a + b)

FNeg(a) ==
    IF a = Ovf \/ a = NaN THEN a
    ELSE IF a = PosInf THEN NegInf
    ELSE IF a = NegInf THEN PosInf
    ELSE 0 - a

\* float - float
FSub(a, b) == FAdd(a, FNeg(b))

\* |n| / d rounded to the nearest integer, d > 0
RoundDiv(n, d) == Sgn(n) * ((2 * Abs(n) + d) \div (2 * d))

\* float * float
FMul(a, b) ==
    IF a = Ovf \/ b = Ovf THEN Ovf
    ELSE IF a = NaN \/ b = NaN THEN NaN
    ELSE IF IsInf(a) \/ IsInf(b)
         THEN (IF a = 0 \/ b = 0 THEN NaN
               ELSE IF Sgn(a) * Sgn(b) > 0 THEN PosInf ELSE NegInf)
    ELSE IF b # 0 /\ Abs(a) > (MaxMag * Scale) \div Abs(b) THEN Ovf
    ELSE Clamp(RoundDiv(a * b, Scale))

\* float / float, numpy semantics: x / 0.0 is inf or nan, never an error
FDiv(a, b) ==
    IF a = Ovf \/ b = Ovf THEN Ovf
    ELSE IF a = NaN \/ b = NaN THEN NaN
    ELSE IF IsInf(a) /\ IsInf(b) THEN NaN
    ELSE IF IsInf(a)
         THEN (IF b = 0 THEN a
               ELSE IF Sgn(a) * Sgn(b) > 0 THEN PosInf ELSE NegInf)
    ELSE IF IsInf(b) THEN 0
    ELSE IF b = 0
         THEN (IF a = 0 THEN NaN ELSE IF a > 0 THEN PosInf ELSE NegInf)
    ELSE Clamp(Sgn(b) * RoundDiv(a * Scale, Abs(b)))

\* float < float: false whenever a nan is compared
FLess(a, b) ==
    IF a = NaN \/ b = NaN \/ a = Ovf \/ b = Ovf THEN FALSE
    ELSE IF a = b THEN FALSE
    ELSE IF a = NegInf \/ b = PosInf THEN TRUE
    ELSE IF a = PosInf \/ b = NegInf THEN FALSE
    ELSE a < b

\* ------------------------------------------------------------ kernel.py
\* math.exp is evaluated at a resolution of 1 / ExpUnit
ExpUnit == 10000
\* 1 / e in units of 1 / ExpUnit
EInv == 3679
\* terms of the series of exp on [0, 1)
TaylorTerms == 7

RECURSIVE EPow(_)
\* e^(-n) for a natural n, in units of 1 / ExpUnit
EPow(n) ==
    IF n = 0 THEN ExpUnit
    ELSE IF n > 12 THEN 0
    ELSE RoundDiv(EPow(n - 1) * EInv, ExpUnit)

RECURSIVE ExpSeries(_, _)
\* Horner form of e^(-g), 0 <= g < ExpUnit, from term k on
ExpSeries(k, g) ==
    IF k > TaylorTerms THEN ExpUnit
    ELSE ExpUnit - RoundDiv(g * ExpSeries(k + 1, g), k * ExpUnit)

\* math.exp(-t) for a float t >= 0.  An exponent beyond the modelled range
\* (Ovf, above MaxMag / Scale) underflows to 0.0, as the double does.
ExpNeg(t) ==
    IF t = NaN THEN NaN
    ELSE IF t = Ovf \/ t = PosInf THEN 0
    ELSE LET n == t \div Scale
             g == RoundDiv((t % Scale) * ExpUnit, Scale)
         IN RoundDiv(EPow(n) * ExpSeries(1, g), (ExpUnit * ExpUnit) \div Scale)

Square(d) == FMul(d, d)

\* scipy.spatial.distance.sqeuclidean on one-dimensional vectors
sqeuclidean(x, y) == Square(FSub(x, y))

\* gaussian(x, y, sigma): exp(-(sqeuclidean(x, y) / 2 * sigma ** 2))
gaussian(x, y, sigma) ==
    ExpNeg(FMul(FDiv(sqeuclidean(x, y), 2 * Scale), FMul(sigma, sigma)))

\* the default bandwidth, sigma = 1
DefaultSigma == Scale

\* kernel_dist(gaussian, sigma=...): lambda x, y: 2 - 2 * gaussian(x, y, sigma)
kernel_dist_gaussian(x, y, sigma) ==
    FSub(2 * Scale, FMul(2 * Scale, gaussian(x, y, sigma)))

\* the outcome of a kernel call: the exception raised ("none": it
\* returned) and the float returned
KReturned(v) == [err |-> "none", val |-> v]
KRaised(e) == [err |-> e, val |-> NaN]

\* math.pi in units of 1 / ExpUnit
Pi == 31416
\* terms of the series of cos on [0, pi]
CosTerms == 10

RECURSIVE CosSeries(_, _)
\* Horner form of cos, from term k on; a2 is the squared angle
CosSeries(k, a2) ==
    IF k > CosTerms THEN ExpUnit
    ELSE ExpUnit - RoundDiv(a2 * CosSeries(k + 1, a2),
                            (2 * k - 1) * (2 * k) * ExpUnit)

\* cos(a), 0 <= a <= pi, in units of 1 / ExpUnit
Cos(a) == CosSeries(1, RoundDiv(a * a, ExpUnit))

RECURSIVE ACosBetween(_, _, _)
\* the angle in lo .. hi whose cosine is v: cos falls from lo to hi
ACosBetween(v, lo, hi) ==
    IF hi - lo <= 1
    THEN (IF Abs(Cos(lo) - v) <= Abs(Cos(hi) - v) THEN lo ELSE hi)
    ELSE IF Cos((lo + hi) \div 2) > v
         THEN ACosBetween(v, (lo + hi) \div 2, hi)
         ELSE ACosBetween(v, lo, (lo + hi) \div 2)

\* math.acos(v), -1 <= v <= 1, in units of 1 / ExpUnit
ACos(v) ==
    IF v <= 0 - ExpUnit THEN Pi
    ELSE IF v >= ExpUnit THEN 0
    ELSE ACosBetween(v, 0, Pi)

RECURSIVE SqrtBetween(_, _, _)
\* the largest r in lo .. hi with r * r <= n
SqrtBetween(n, lo, hi) ==
    IF lo >= hi THEN lo
    ELSE IF ((lo + hi + 1) \div 2) * ((lo + hi + 1) \div 2) <= n
         THEN SqrtBetween(n, (lo + hi + 1) \div 2, hi)
         ELSE SqrtBetween(n, lo, ((lo + hi + 1) \div 2) - 1)

\* math.sqrt(v), 0 <= v <= 1, in units of 1 / ExpUnit
Sqrt(v) == SqrtBetween(v * ExpUnit, 0, ExpUnit)

\* scipy.spatial.distance.euclidean on one-dimensional vectors
euclidean(x, y) == Abs(FSub(x, y))

\* the return expression of circular, given norm_sigma in units of
\* 1 / ExpUnit, 0 <= r <= 1:
\* pi2 * acos(-norm_sigma) - pi2 * norm_sigma * sqrt(1 - norm_sigma ** 2)
CircularOf(r) ==
    RoundDiv((RoundDiv(2 * ACos(0 - r) * ExpUnit, Pi)
                 - RoundDiv(2 * r * Sqrt(ExpUnit - RoundDiv(r * r, ExpUnit)),
                            Pi)) * Scale,
             ExpUnit)

\* circular(x, y, sigma), sigma > 0: math.acos raises ValueError outside
\* [-1, 1]
circular(x, y, sigma) ==
    IF euclidean(x, y) > sigma THEN KRaised("ValueError")
    ELSE KReturned(CircularOf(RoundDiv(euclidean(x, y) * ExpUnit, sigma)))

\* the kernels handed to kernel_dist
Kernels == {"gaussian", "circular"}

\* partial(kernel, sigma=sigma)(x, y)
kern(name, x, y, sigma) ==
    IF name = "gaussian" THEN KReturned(gaussian(x, y, sigma))
    ELSE circular(x, y, sigma)

\* kern(x, x) - 2 * kern(x, y) + kern(y, y), given the three outcomes
ThreeTerms(kxx, kxy, kyy) ==
    IF kxx.err # "none" THEN kxx
    ELSE IF kxy.err # "none" THEN kxy
    ELSE IF kyy.err # "none" THEN kyy
    ELSE KReturned(FAdd(FSub(kxx.val, FMul(2 * Scale, kxy.val)), kyy.val))

\* kernel_dist(kernel, sigma=sigma)(x, y) for a kernel not named gaussian
kernel_dist_general(name, x, y, sigma) ==
    ThreeTerms(kern(name, x, x, sigma), kern(name, x, y, sigma),
               kern(name, y, y, sigma))

\* a shortcut that takes K(x, x) + K(y, y) to be 1
kernel_dist_OneMinus(name, x, y, sigma) ==
    KReturned(FSub(Scale, FMul(2 * Scale, gaussian(x, y, sigma))))

\* kernel_dist(kernel, sigma=sigma)(x, y)
kernel_dist(name, x, y, sigma) ==
    IF name = "gaussian" THEN KReturned(kernel_dist_gaussian(x, y, sigma))
    ELSE kernel_dist_general(name, x, y, sigma)

\* ---------------------------------------------------------- centroid.py
\* A value handed to a centroid operation: a Centroid, a KernelCentroid or
\* a raw point tuple (kind "tuple", of which only center is meaningful).
\* A plain Centroid is a 2-tuple: it has no size, kept 0 here.
Kinds == {"Centroid", "KernelCentroid"}

MkCentroid(kind, center, count, size) ==
    [kind |-> kind, center |-> center, count |-> count, size |-> size]

RawPoint(p) == MkCentroid("tuple", p, 0, 0)

NoCentroid == MkCentroid("None", 0, 0, 0)

\* the outcome of a call: the exception raised ("none": it returned) and
\* the value returned
Returned(c) == [err |-> "none", val |-> c]
Raised(e) == [err |-> e, val |-> NoCentroid]

\* isinstance(other, type(self)): KernelCentroid is a subclass of Centroid
IsInstance(other, kind) ==
    IF kind = "Centroid" THEN other.kind \in Kinds
    ELSE other.kind = kind

\* Centroid.__new__(cls, center, count=0)
NewCentroid(center, count) == MkCentroid("Centroid", center, count, 0)

\* KernelCentroid.__new__(cls, center, count=0, size=0.0)
NewKernelCentroid(center, count, size) ==
    MkCentroid("KernelCentroid", center, count, size)

\* an __eq__ that compares the whole tuples of two centroids
CentroidEq_WholeTuple(self, other) ==
    /\ self.center = other.center
    /\ other.kind \in Kinds => (self.count = other.count /\ self.size = other.size)

\* Centroid.__eq__: centers only; a raw tuple is compared as tuple(other)
CentroidEq(self, other) == self.center = other.center

\* Centroid.__hash__
CentroidHash(self) == self.center

\* Centroid.__add__ (self is a plain Centroid)
CentroidAdd(self, other) ==
    LET o == other.center
        center == FAdd(self.center,
                       FDiv(FSub(o, o), (self.count + 1) * Scale))
    IN Returned(NewCentroid(center, self.count + 1))

\* Centroid.merge (self is a plain Centroid)
CentroidMerge(self, other) ==
    IF ~IsInstance(other, "Centroid") THEN Raised("TypeError")
    ELSE Raised("NameError")

\* KernelCentroid.kernel = lambda self, a, b: gaussian(a, b)
kernel(a, b) == gaussian(a, b, DefaultSigma)

\* KernelCentroid.__add__, from the new size on:
\* center = x + (y - x) / size, count = self.count + 1
KernelCentroidMoved(self, y, size) ==
    NewKernelCentroid(FAdd(self.center, FDiv(FSub(y, self.center), size)),
                      self.count + 1, size)

\* KernelCentroid.__add__: size = self.size + self.kernel(x, y)
KernelCentroidAdd(self, other) ==
    IF other.kind = "tuple" THEN Raised("AttributeError")
    ELSE Returned(KernelCentroidMoved(self, other.center,
             FAdd(self.size, kernel(self.center, other.center))))

\* a merge that keeps the count of self alone
KernelCentroidMerge_OwnCount(self, other) ==
    IF ~IsInstance(other, "KernelCentroid") THEN Raised("TypeError")
    ELSE Returned(NewKernelCentroid(
             FDiv(FAdd(FMul(self.center, self.size),
                       FMul(other.center, other.size)),
                  FAdd(self.size, other.size)),
             self.count,
             FAdd(self.size, other.size)))

\* KernelCentroid.merge
KernelCentroidMerge(self, other) ==
    IF ~IsInstance(other, "KernelCentroid") THEN Raised("TypeError")
    ELSE Returned(NewKernelCentroid(
             FDiv(FAdd(FMul(self.center, self.size),
                       FMul(other.center, other.size)),
                  FAdd(self.size, other.size)),
             self.count + other.count,
             FAdd(self.size, other.size)))

\* Centroid.add: self + other, dispatched on the class of self
add(self, other) ==
    IF self.kind = "KernelCentroid" THEN KernelCentroidAdd(self, other)
    ELSE CentroidAdd(self, other)

\* a.merge(b), dispatched on the class of a
merge(self, other) ==
    IF self.kind = "KernelCentroid" THEN KernelCentroidMerge(self, other)
    ELSE CentroidMerge(self, other)

\* self.centroid_factory(p), for the class the engine was built with
NewOf(kind, p) ==
    IF kind = "KernelCentroid" THEN NewKernelCentroid(p, 0, 0)
    ELSE NewCentroid(p, 0)

\* ------------------------------------------- the nearest-pair index
\* The index the engine stores its centroids in (self.fastpair): the
\* sequence of the stored centroids in iteration order.

\* position of the first stored centroid equal to c, 0 if there is none
RECURSIVE IndexOfFrom(_, _, _)
IndexOfFrom(pts, c, i) ==
    IF i > Len(pts) THEN 0
    ELSE IF CentroidEq(pts[i], c) THEN i
    ELSE IndexOfFrom(pts, c, i + 1)

IndexOf(pts, c) == IndexOfFrom(pts, c, 1)

\* contains(point_or_centroid)
IndexContains(pts, c) == IndexOf(pts, c) # 0

\* the outcome of an index update: the exception raised and the contents
IndexOk(pts) == [err |-> "none", pts |-> pts]
IndexFail(e, pts) == [err |-> e, pts |-> pts]

\* insert(centroid): fails if an equal centroid is stored
IndexInsert(pts, c) ==
    IF IndexContains(pts, c) THEN IndexFail("ValueError", pts)
    ELSE IndexOk(Append(pts, c))

\* remove(centroid): fails if absent
IndexRemove(pts, c) ==
    LET i == IndexOf(pts, c)
    IN IF i = 0 THEN IndexFail("ValueError", pts)
       ELSE IndexOk(SubSeq(pts, 1, i - 1) \o SubSeq(pts, i + 1, Len(pts)))

\* replace(old, new): new takes the slot of old; fails if old is absent
IndexReplace(pts, old, new) ==
    LET i == IndexOf(pts, old)
    IN IF i = 0 THEN IndexFail("ValueError", pts)
       ELSE IndexOk([pts EXCEPT ![i] = new])

\* the distance the index is configured with: kernel_dist(gaussian)
dist(a, b) == kernel_dist_gaussian(a.center, b.center, DefaultSigma)

\* nearest(query): the (distance, centroid) pairs of all stored centroids
sdist(pts, c) == [i \in 1 .. Len(pts) |-> <<dist(pts[i], c), pts[i]>>]

\* min(items, key=itemgetter(0)): the first item no later item is less than
RECURSIVE MinFrom(_, _, _)
MinFrom(items, i, best) ==
    IF i > Len(items) THEN best
    ELSE MinFrom(items, i + 1,
                 IF FLess(items[i][1], best[1]) THEN items[i] ELSE best)

MinByKey(items) == MinFrom(items, 2, items[1])

\* the pairs (i, j), i < j <= n, in the order of itertools.combinations
RECURSIVE PairsFrom(_, _, _)
PairsFrom(i, j, n) ==
    IF i >= n THEN << >>
    ELSE IF j > n THEN PairsFrom(i + 1, i + 2, n)
    ELSE << <<i, j>> >> \o PairsFrom(i, j + 1, n)

\* closest_pair(): (distance, (a, b)), needs two stored centroids
closest_pair(pts) ==
    LET prs == PairsFrom(1, 2, Len(pts))
    IN MinByKey([k \in 1 .. Len(prs) |->
                   <<dist(pts[prs[k][1]], pts[prs[k][2]]),
                     <<pts[prs[k][1]], pts[prs[k][2]]>> >>])

\* ---------------------------------------------------------------- base.py
\* self.fastpair._update_point(old, old.add(c)), given the outcome of add
Updated(pts, old, new) ==
    IF new.err # "none" THEN IndexFail(new.err, pts)
    ELSE IndexReplace(pts, old, new.val)

\* a choice of old that takes the first stored centroid
Nearest_First(pts, c) == pts[1]

\* old = min(self.fastpair.sdist(c), key=itemgetter(0))[1]
Nearest(pts, c) == MinByKey(sdist(pts, c))[2]

\* the body of AddC._step_one, given old
MoveOld(pts, old, c) == Updated(pts, old, add(old, c))

\* AddC._step_one
step_one(pts, c) ==
    IF Len(pts) > 0 THEN MoveOld(pts, Nearest(pts, c), c)
    ELSE IndexOk(pts)

\* self.fastpair._update_point(a, a.merge(b)) after self.fastpair -= b:
\* a.merge(b) is evaluated once b is removed
MergeInto(removed, a, b) ==
    IF removed.err # "none" THEN removed
    ELSE Updated(removed.pts, a, merge(a, b))

\* the body of AddC._step_two, given the closest pair
MergePair(pts, ab) == MergeInto(IndexRemove(pts, ab[2]), ab[1], ab[2])

\* AddC._step_two
step_two(pts, k) ==
    IF Len(pts) >= k /\ Len(pts) > 1
    THEN MergePair(pts, closest_pair(pts)[2])
    ELSE IndexOk(pts)

\* AddC._step_three
\* a step three that returns without inserting the new centroid
step_three_Skip(pts, c) == IndexOk(pts)

step_three(pts, c) == IndexInsert(pts, c)

\* the engine's fields that ingestion changes
Engine(pts, n) == [pts |-> pts, npoints |-> n]

\* the outcome of a call that changes the engine: the exception raised, if
\* any, and the engine as the call leaves it
Left(e, s) == [err |-> s.err, eng |-> Engine(s.pts, e.npoints)]

\* a cycle that leaves npoints alone
AfterThree_NoIncrement(e, s3) == Left(e, s3)

\* self.npoints += 1, once step three is done
AfterThree(e, s3) ==
    IF s3.err # "none" THEN Left(e, s3)
    ELSE [err |-> "none", eng |-> Engine(s3.pts, e.npoints + 1)]

\* self._step_three(c), once step two is done
AfterTwo(e, c, s2) ==
    IF s2.err # "none" THEN Left(e, s2)
    ELSE AfterThree(e, step_three(s2.pts, c))

\* self._step_two(), once step one is done
AfterOne(e, k, c, s1) ==
    IF s1.err # "none" THEN Left(e, s1)
    ELSE AfterTwo(e, c, step_two(s1.pts, k))

\* a cycle that merges before it moves
AddCentroid_MergeFirst(e, k, c) ==
    LET s2 == step_two(e.pts, k)
    IN IF s2.err # "none" THEN Left(e, s2)
       ELSE AfterTwo(e, c, step_one(s2.pts, c))

\* the body of AddC.__add__, given c
AddCentroid(e, k, c) == AfterOne(e, k, c, step_one(e.pts, c))

\* AddC.__add__
AddPoint(e, k, factory, p) == AddCentroid(e, k, NewOf(factory, p))

\* AddC.batch: the loop over the points, left at the first exception;
\* done counts the points ingested
RECURSIVE BatchFrom(_, _, _, _, _)
BatchStep(r, k, factory, points, i) ==
    IF r.err # "none" THEN [err |-> r.err, eng |-> r.eng, done |-> i - 1]
    ELSE BatchFrom(r.eng, k, factory, points, i + 1)

BatchFrom(e, k, factory, points, i) ==
    IF i > Len(points) THEN [err |-> "none", eng |-> e, done |-> i - 1]
    ELSE BatchStep(AddPoint(e, k, factory, points[i]), k, factory, points, i)

\* a loop that takes the points in ascending order
batch_Sorted(e, k, factory, points) ==
    BatchFrom(e, k, factory, SortSeq(points, LAMBDA a, b : a < b), 1)

\* a loop that starts at the second point
batch_FromSecond(e, k, factory, points) == BatchFrom(e, k, factory, points, 2)

batch(e, k, factory, points) == BatchFrom(e, k, factory, points, 1)

\* AddC.__len__
EngineLen(pts) == Len(pts)

\* AddC.centroids: the centers in iteration order
centroids(pts) == [i \in 1 .. Len(pts) |-> pts[i].center]

\* AddC.__contains__
contains(pts, x) == IndexContains(pts, x)

\* float >= float: false whenever a nan is compared
FGeq(a, b) == (a # NaN /\ b # NaN /\ a = b) \/ FLess(b, a)

\* sum(sub)
RECURSIVE FSum(_)
FSum(xs) == IF xs = << >> THEN 0 ELSE FAdd(xs[1], FSum(Tail(xs)))

\* [x for x in self if keep(x)]
SelectSizes(pts) ==
    LET F[i \in 0 .. Len(pts)] ==
          IF i = 0 THEN << >>
          ELSE IF FLess(0, pts[i].size) THEN Append(F[i - 1], pts[i].size)
          ELSE F[i - 1]
    IN F[Len(pts)]

\* a filter that keeps the centroids under the threshold
SelectAtLeast_Below(pts, t) ==
    LET F[i \in 0 .. Len(pts)] ==
          IF i = 0 THEN << >>
          ELSE IF FLess(pts[i].size, t) THEN Append(F[i - 1], pts[i])
          ELSE F[i - 1]
    IN F[Len(pts)]

SelectAtLeast(pts, t) ==
    LET F[i \in 0 .. Len(pts)] ==
          IF i = 0 THEN << >>
          ELSE IF FGeq(pts[i].size, t) THEN Append(F[i - 1], pts[i])
          ELSE F[i - 1]
    IN F[Len(pts)]

\* AddC.trim(p): the exception raised, if any, and the list returned.
\* x.size of a plain Centroid, a 2-tuple, raises IndexError.
\* a trim that returns the empty list when no size is positive
TrimOver_Guarded(pts, sub, p) ==
    IF Len(sub) = 0 THEN [err |-> "none", val |-> << >>]
    ELSE [err |-> "none",
          val |-> SelectAtLeast(pts,
                      FMul(FDiv(FSum(sub), Len(sub) * Scale), p))]

TrimOver(pts, sub, p) ==
    IF Len(sub) = 0 THEN [err |-> "ZeroDivisionError", val |-> << >>]
    ELSE [err |-> "none",
          val |-> SelectAtLeast(pts,
                      FMul(FDiv(FSum(sub), Len(sub) * Scale), p))]

trim(pts, p) ==
    IF \E i \in 1 .. Len(pts) : pts[i].kind = "Centroid"
    THEN [err |-> "IndexError", val |-> << >>]
    ELSE TrimOver(pts, SelectSizes(pts), p)

\* ------------------------------------------------------------ the engine
VARIABLES
    kmax,              \* AddC.kmax
    centroid_factory,  \* AddC.centroid_factory: the class of the centroids
    npoints,           \* AddC.npoints
    fastpair,          \* AddC.fastpair: the stored centroids
    op,                \* the last call made on the engine
    err,               \* the exception the last call raised, "none" if none
    probe,             \* the argument of the last contains call
    found,             \* the result of the last contains call
    trimmed,           \* the list the last trim call returned
    stream,            \* the points ingested so far, in order
    handed,            \* the number of points handed to the engine
    lhs,               \* the receiver of the last centroid operation
    rhs,               \* the argument of the last centroid operation
    out,               \* the outcome of the last centroid operation
    vx,                \* the vector x of the last kernel call
    vy,                \* the vector y of the last kernel call
    bandwidth,         \* the sigma of the last kernel call
    kname,             \* the kernel of the last kernel_dist call
    kout               \* the outcome of the last kernel call

vars == <<kmax, centroid_factory, npoints, fastpair, op, err, probe, found,
          trimmed, stream, handed, lhs, rhs, out, vx, vy, bandwidth, kname,
          kout>>

\* the variables of the engine and of the calls made on it
engineVars == <<kmax, centroid_factory, npoints, fastpair, op, err, probe,
                found, trimmed, stream, handed>>

\* the variables of a centroid operation made outside an engine, and of a
\* kernel call
centroidVars == <<lhs, rhs, out, vx, vy, bandwidth, kname, kout>>

\* the incoming points, in fixed point
Points == {c * Scale : c \in 0 .. MaxCoord}

\* the proportions handed to trim: 0.01 (the default), 0.5 and 1
Proportions == {Scale \div 100, Scale \div 2, Scale}

\* the longest sequence handed to one batch call
MaxBatch == MaxPoints \div 2

\* the sequences of at most n points
SeqsUpTo(n) == UNION {[1 .. m -> Points] : m \in 0 .. n}

\* whether a stored value left the modelled range
HasOvf(pts) ==
    \E i \in 1 .. Len(pts) : pts[i].center = Ovf \/ pts[i].size = Ovf

\* AddC.__init__
Init ==
    /\ kmax \in 1 .. MaxKmax
    /\ centroid_factory \in Kinds
    /\ npoints = 0
    /\ fastpair = << >>
    /\ op = "new"
    /\ err = "none"
    /\ probe = NoCentroid
    /\ found = FALSE
    /\ trimmed = << >>
    /\ stream = << >>
    /\ handed = 0
    /\ lhs = NoCentroid
    /\ rhs = NoCentroid
    /\ out = Returned(NoCentroid)
    /\ vx = 0
    /\ vy = 0
    /\ bandwidth = DefaultSigma
    /\ kname = "gaussian"
    /\ kout = KReturned(0)

\* engine += p
Ingest(p) ==
    /\ handed < MaxPoints
    /\ \E r \in {AddPoint(Engine(fastpair, npoints), kmax,
                         centroid_factory, p)} :
          /\ ~HasOvf(r.eng.pts)
          /\ fastpair' = r.eng.pts
          /\ npoints' = r.eng.npoints
          /\ err' = r.err
          /\ stream' = IF r.err = "none" THEN Append(stream, p) ELSE stream
    /\ handed' = handed + 1
    /\ op' = "ingest"
    /\ probe' = NoCentroid
    /\ found' = FALSE
    /\ trimmed' = << >>
    /\ UNCHANGED <<kmax, centroid_factory>>
    /\ UNCHANGED centroidVars

\* engine.batch(points)
Batch(points) ==
    /\ handed + Len(points) <= MaxPoints
    /\ \E r \in {batch(Engine(fastpair, npoints), kmax,
                      centroid_factory, points)} :
          /\ ~HasOvf(r.eng.pts)
          /\ fastpair' = r.eng.pts
          /\ npoints' = r.eng.npoints
          /\ err' = r.err
          /\ stream' = stream \o SubSeq(points, 1, r.done)
    /\ handed' = handed + Len(points)
    /\ op' = "batch"
    /\ probe' = NoCentroid
    /\ found' = FALSE
    /\ trimmed' = << >>
    /\ UNCHANGED <<kmax, centroid_factory>>
    /\ UNCHANGED centroidVars

\* a trim that keeps in the engine only the centroids it returns
Trim_Destructive(p) ==
    /\ \E r \in {trim(fastpair, p)} :
          /\ err' = r.err
          /\ trimmed' = r.val
          /\ fastpair' = IF r.err = "none" THEN r.val ELSE fastpair
    /\ op' = "trim"
    /\ probe' = NoCentroid
    /\ found' = FALSE
    /\ UNCHANGED <<kmax, centroid_factory, npoints, stream, handed>>
    /\ UNCHANGED centroidVars

\* engine.trim(p)
Trim(p) ==
    /\ \E r \in {trim(fastpair, p)} :
          /\ err' = r.err
          /\ trimmed' = r.val
    /\ op' = "trim"
    /\ probe' = NoCentroid
    /\ found' = FALSE
    /\ UNCHANGED <<kmax, centroid_factory, npoints, fastpair, stream, handed>>
    /\ UNCHANGED centroidVars

\* the values handed to contains: the raw points, the elements of the
\* centroids() snapshot, and fresh centroids of either class at the centers
\* of the snapshot
Snapshot == {centroids(fastpair)[i] : i \in 1 .. Len(fastpair)}

Probes ==
    {RawPoint(x) : x \in Points \cup Snapshot}
       \cup {NewOf(k, x) : k \in Kinds, x \in Snapshot}

\* x in engine
Contains(x) ==
    /\ found' = contains(fastpair, x)
    /\ probe' = x
    /\ op' = "contains"
    /\ err' = "none"
    /\ trimmed' = << >>
    /\ UNCHANGED <<kmax, centroid_factory, npoints, fastpair, stream, handed>>
    /\ UNCHANGED centroidVars

\* ingestion, one point or one batch at a time
Next ==
    \/ \E p \in Points : Ingest(p)
    \/ \E points \in SeqsUpTo(MaxBatch) : Batch(points)

Spec == Init /\ [][Next]_vars

\* ingestion one point at a time
NextIngest == \E p \in Points : Ingest(p)

SpecIngest == Init /\ [][NextIngest]_vars

\* ingestion with trim calls in between
NextTrim ==
    \/ \E p \in Points : Ingest(p)
    \/ \E p \in Proportions : Trim(p)

SpecTrim == Init /\ [][NextTrim]_vars

\* ingestion with membership tests in between
NextContains ==
    \/ \E p \in Points : Ingest(p)
    \/ \E x \in Probes : Contains(x)

SpecContains == Init /\ [][NextContains]_vars

\* incoming points far enough apart for the kernel of two of them to be
\* 0.0 (math.exp underflows; at the resolution of the model from a
\* distance of 4 on, in doubles from 38.6 on)
FarPoints == {c * Scale : c \in 0 .. MaxFar}

\* ingestion of far-apart points
NextFar == \E p \in FarPoints : Ingest(p)

SpecFar == Init /\ [][NextFar]_vars

\* ingestion of far-apart points with trim calls in between
NextFarTrim ==
    \/ \E p \in FarPoints : Ingest(p)
    \/ \E p \in Proportions : Trim(p)

SpecFarTrim == Init /\ [][NextFarTrim]_vars

\* ------------------------------------------- centroid operations alone
\* the centroids handed to add and merge: a plain Centroid has no size
Centers == Points
Counts == 0 .. 2
Sizes == {0, Scale \div 2, Scale}

CentroidValues ==
    {NewCentroid(c, n) : c \in Centers, n \in Counts}
       \cup {NewKernelCentroid(c, n, z) : c \in Centers, n \in Counts, z \in Sizes}

\* a receiver and an argument, on which no operation was made yet
InitCentroid ==
    /\ kmax = 1
    /\ centroid_factory = "KernelCentroid"
    /\ npoints = 0
    /\ fastpair = << >>
    /\ op = "new"
    /\ err = "none"
    /\ probe = NoCentroid
    /\ found = FALSE
    /\ trimmed = << >>
    /\ stream = << >>
    /\ handed = 0
    /\ lhs \in CentroidValues
    /\ rhs \in CentroidValues \cup {RawPoint(c) : c \in Centers}
    /\ out = Returned(NoCentroid)
    /\ vx = 0
    /\ vy = 0
    /\ bandwidth = DefaultSigma
    /\ kname = "gaussian"
    /\ kout = KReturned(0)

\* lhs.add(rhs)
Add ==
    /\ op' = "add"
    /\ out' = add(lhs, rhs)
    /\ UNCHANGED <<kmax, centroid_factory, npoints, fastpair, err, probe,
                   found, trimmed, stream, handed, lhs, rhs>>
    /\ UNCHANGED <<vx, vy, bandwidth, kname, kout>>

\* lhs.merge(rhs)
Merge ==
    /\ op' = "merge"
    /\ out' = merge(lhs, rhs)
    /\ UNCHANGED <<kmax, centroid_factory, npoints, fastpair, err, probe,
                   found, trimmed, stream, handed, lhs, rhs>>
    /\ UNCHANGED <<vx, vy, bandwidth, kname, kout>>

NextCentroid == Add \/ Merge

SpecCentroid == InitCentroid /\ [][NextCentroid]_vars

\* ---------------------------------------------------- kernel calls alone
\* the bandwidths handed to the kernels: 0.5, 1 (the default) and 2
Sigmas == {Scale \div 2, Scale, 2 * Scale}

\* two vectors and a bandwidth, on which no kernel was called yet
InitKernel ==
    /\ kmax = 1
    /\ centroid_factory = "KernelCentroid"
    /\ npoints = 0
    /\ fastpair = << >>
    /\ op = "new"
    /\ err = "none"
    /\ probe = NoCentroid
    /\ found = FALSE
    /\ trimmed = << >>
    /\ stream = << >>
    /\ handed = 0
    /\ lhs = NoCentroid
    /\ rhs = NoCentroid
    /\ out = Returned(NoCentroid)
    /\ vx \in Points
    /\ vy \in Points
    /\ bandwidth \in Sigmas
    /\ kname = "gaussian"
    /\ kout = KReturned(0)

\* gaussian(x, y, sigma)
Gaussian ==
    /\ op' = "gaussian"
    /\ kname' = "gaussian"
    /\ kout' = KReturned(gaussian(vx, vy, bandwidth))
    /\ UNCHANGED <<kmax, centroid_factory, npoints, fastpair, err, probe,
                   found, trimmed, stream, handed, lhs, rhs, out>>
    /\ UNCHANGED <<vx, vy, bandwidth>>

\* circular(x, y, sigma)
Circular ==
    /\ op' = "circular"
    /\ kname' = "circular"
    /\ kout' = circular(vx, vy, bandwidth)
    /\ UNCHANGED <<kmax, centroid_factory, npoints, fastpair, err, probe,
                   found, trimmed, stream, handed, lhs, rhs, out>>
    /\ UNCHANGED <<vx, vy, bandwidth>>

\* kernel_dist(kernel, sigma=sigma)(x, y)
KernelDist(name) ==
    /\ op' = "kernel_dist"
    /\ kname' = name
    /\ kout' = kernel_dist(name, vx, vy, bandwidth)
    /\ UNCHANGED <<kmax, centroid_factory, npoints, fastpair, err, probe,
                   found, trimmed, stream, handed, lhs, rhs, out>>
    /\ UNCHANGED <<vx, vy, bandwidth>>

NextKernel ==
    \/ Gaussian
    \/ Circular
    \/ \E name \in Kernels : KernelDist(name)

SpecKernel == InitKernel /\ [][NextKernel]_vars

\* whether an ingest or batch call raised
Failed == Len(stream) < handed

\* ------------------------------------------------------------- claims
Min(a, b) == IF a < b THEN a ELSE b

\* the last call ingested points and raised nothing
Ingested == op \in {"ingest", "batch"} /\ err = "none"

\* sum of count, and of size, over the stored centroids
RECURSIVE CountSum(_)
CountSum(pts) == IF pts = << >> THEN 0 ELSE pts[1].count + CountSum(Tail(pts))

SizeSum(pts) == FSum([i \in 1 .. Len(pts) |-> pts[i].size])

\* C1: as long as no ingest call raised, the number of stored centroids is
\* min(n, kmax) after n points, for every kmax >= 1.
C1_Capacity == ~Failed => EngineLen(fastpair) = Min(Len(stream), kmax)

\* C2: an ingest call that raises leaves the index and npoints as they were
\* before the call.
C2_Atomic ==
    [][(op' = "ingest" /\ err' # "none")
          => (fastpair' = fastpair /\ npoints' = npoints)]_vars

\* C3: npoints is the number of points ingested so far, through single
\* calls and batches alike, and is never below the number of stored
\* centroids.
C3_Counter == npoints = Len(stream) /\ npoints >= EngineLen(fastpair)

\* a batch call has brought npoints above the number of stored centroids
C3_Witness ==
    /\ op = "batch"
    /\ err = "none"
    /\ npoints = MaxPoints
    /\ Len(fastpair) < npoints

\* step two conserves count and size when run on pts
Conserves(pts, k) ==
    \E r \in {step_two(pts, k)} :
        /\ r.err = "none"
        /\ Len(r.pts) = Len(pts) - 1
        /\ CountSum(r.pts) = CountSum(pts)
        /\ SizeSum(r.pts) = SizeSum(pts)

\* a.merge(b) returns a centroid with the counts and the sizes added
MergeAdds(a, b) ==
    \E m \in {merge(a, b)} :
        /\ m.err = "none"
        /\ m.val.count = a.count + b.count
        /\ m.val.size = FAdd(a.size, b.size)

\* C4: in an engine of KernelCentroids, the merge of any two stored
\* centroids has the sum of their counts and the sum of their sizes; and
\* whenever step two of a cycle merges (the index, as step one leaves it,
\* holds at least kmax and more than one centroid), it leaves one centroid
\* fewer and the sums of count and of size over the stored centroids are
\* what they were before it.
C4_MergeConserves ==
    centroid_factory = "KernelCentroid" =>
        /\ \A i, j \in 1 .. Len(fastpair) :
               i # j => MergeAdds(fastpair[i], fastpair[j])
        /\ \A p \in Points :
               \E s1 \in {step_one(fastpair, NewOf(centroid_factory, p))} :
                   (s1.err = "none" /\ Len(s1.pts) >= kmax /\ Len(s1.pts) > 1)
                       => Conserves(s1.pts, kmax)

\* a cycle of a KernelCentroid engine has merged two centroids that both
\* carry mass
C4_Witness ==
    /\ centroid_factory = "KernelCentroid"
    /\ Ingested
    /\ Len(fastpair) < npoints
    /\ \E i \in 1 .. Len(fastpair) :
           fastpair[i].count >= 2 /\ FLess(Scale, fastpair[i].size)

\* C5: as long as no call raised, the engine is in the state that one batch
\* call with the whole stream leaves a fresh engine in: the same centroids
\* in the same order, the same npoints.
C5_BatchSequential ==
    ~Failed =>
        batch(Engine(<< >>, 0), kmax, centroid_factory, stream)
            = [err |-> "none", eng |-> Engine(fastpair, npoints),
               done |-> Len(stream)]

\* MaxPoints points were ingested one call at a time, with merges
C5_Witness ==
    /\ op = "ingest"
    /\ ~Failed
    /\ Len(stream) = MaxPoints
    /\ Len(fastpair) < Len(stream)

\* C6: add and merge between a plain Centroid and a KernelCentroid, either
\* way round, raise TypeError.
C6_TypeMismatch ==
    (op \in {"add", "merge"} /\ lhs.kind \in Kinds /\ rhs.kind \in Kinds
        /\ lhs.kind # rhs.kind)
        => out.err = "TypeError"

\* C7: add on a plain Centroid (c, k) and a point p returns the Centroid
\* (c + (p - c) / (k + 1), k + 1).
C7_RunningMean ==
    (op = "add" /\ lhs.kind = "Centroid" /\ rhs.kind = "tuple")
        => /\ out.err = "none"
           /\ out.val.count = lhs.count + 1
           /\ out.val.center
                = FAdd(lhs.center,
                       FDiv(FSub(rhs.center, lhs.center),
                            (lhs.count + 1) * Scale))

\* C8: merge of two plain Centroids returns the Centroid whose center is
\* the count-weighted average of the centers and whose count is the sum of
\* the counts.
C8_WeightedMerge ==
    (op = "merge" /\ lhs.kind = "Centroid" /\ rhs.kind = "Centroid"
        /\ lhs.count + rhs.count > 0)
        => /\ out.err = "none"
           /\ out.val.count = lhs.count + rhs.count
           /\ out.val.center
                = FDiv(FAdd(lhs.center * lhs.count, rhs.center * rhs.count),
                       (lhs.count + rhs.count) * Scale)

\* C9: a membership test answers whether some stored centroid has the
\* center of the value tested, a raw point or a centroid of any count and
\* size; values that are equal hash equally.
C9_Membership ==
    op = "contains" =>
        /\ found = (\E i \in 1 .. Len(fastpair) :
                        fastpair[i].center = probe.center)
        /\ \A i \in 1 .. Len(fastpair) :
               CentroidEq(fastpair[i], probe)
                   => CentroidHash(fastpair[i]) = CentroidHash(probe)

\* a centroid was found although the stored one differs in count and size
C9_Witness ==
    /\ op = "contains"
    /\ ~Failed
    /\ found
    /\ probe.kind \in Kinds
    /\ \E i \in 1 .. Len(fastpair) :
           /\ fastpair[i].center = probe.center
           /\ fastpair[i].count # probe.count
           /\ fastpair[i].size # probe.size

\* no stored centroid has a positive size
NoPositiveSize(pts) ==
    \A i \in 1 .. Len(pts) :
        pts[i].kind = "Centroid" \/ ~FLess(0, pts[i].size)

\* C10: a trim call made when no stored centroid has a positive size raises
\* and returns no list, and leaves the index and npoints unchanged.
C10_TrimFails ==
    [][(op' = "trim" /\ NoPositiveSize(fastpair))
          => (/\ err' # "none"
              /\ trimmed' = << >>
              /\ fastpair' = fastpair
              /\ npoints' = npoints)]_vars

\* trim has raised on an engine that ingested exactly one point
C10_Witness ==
    /\ op = "trim"
    /\ err = "ZeroDivisionError"
    /\ npoints = 1
    /\ Len(fastpair) = 1

\* every element of the list s is an element of the list t
SubList(s, t) ==
    \A i \in 1 .. Len(s) : \E j \in 1 .. Len(t) : s[i] = t[j]

\* trim(p2) returns no centroid that trim(p1) does not return
TrimWithin(pts, p1, p2) ==
    \E r1 \in {trim(pts, p1)}, r2 \in {trim(pts, p2)} :
        (r1.err = "none" /\ r2.err = "none")
            => (SubList(r2.val, r1.val) /\ Len(r2.val) <= Len(r1.val))

\* C11: whenever trim succeeds, trim(p2) returns a sublist of what trim(p1)
\* returns for all proportions p1 <= p2: a larger proportion never returns
\* more centroids.
C11_TrimMonotone ==
    \A p1, p2 \in Proportions :
        p1 <= p2 => TrimWithin(fastpair, p1, p2)

\* a trim call has returned some centroids, and fewer than a smaller
\* proportion returns
C11_Witness ==
    /\ op = "trim"
    /\ err = "none"
    /\ Len(trimmed) > 0
    /\ \E p1, p2 \in Proportions :
           /\ p1 < p2
           /\ trimmed = trim(fastpair, p2).val
           /\ Len(trimmed) < Len(trim(fastpair, p1).val)

\* C12: a trim call changes neither the stored centroids nor npoints, and
\* with trim calls made anywhere between the ingests the engine is in the
\* state the ingests alone leave a fresh engine in.
C12_TrimReadOnly ==
    /\ [][op' = "trim" => (fastpair' = fastpair /\ npoints' = npoints)]_vars
    /\ [](~Failed =>
            batch(Engine(<< >>, 0), kmax, centroid_factory, stream)
                = [err |-> "none", eng |-> Engine(fastpair, npoints),
                   done |-> Len(stream)])

\* a trim call has returned some of the stored centroids and left others out
C12_Witness ==
    /\ op = "trim"
    /\ err = "none"
    /\ ~Failed
    /\ Len(trimmed) > 0
    /\ Len(trimmed) < Len(fastpair)

\* the stored centroids as a set: centers, counts and sizes
CentroidSet(pts) == {pts[i] : i \in 1 .. Len(pts)}

\* the orderings of the sequence s
Orderings(s) ==
    {[i \in 1 .. Len(s) |-> s[f[i]]] : f \in Permutations(1 .. Len(s))}

\* batches of s and of t on fresh engines both succeed and end with
\* different centroid sets
OrderMatters(k, factory, s, t) ==
    \E rs \in {batch(Engine(<< >>, 0), k, factory, s)},
       rt \in {batch(Engine(<< >>, 0), k, factory, t)} :
        /\ rs.err = "none"
        /\ rt.err = "none"
        /\ CentroidSet(rs.eng.pts) # CentroidSet(rt.eng.pts)

\* C13: for the kmax and the centroid class of every engine there are two
\* orderings of the same points that end with different centroid sets.
C13_OrderSensitive ==
    \E s \in SeqsUpTo(MaxBatch) : \E t \in Orderings(s) :
        OrderMatters(kmax, centroid_factory, s, t)

\* the engine has ingested a stream of which another ordering ends with a
\* different centroid set
C13_Witness ==
    /\ ~Failed
    /\ Ingested
    /\ centroid_factory = "KernelCentroid"
    /\ \E t \in Orderings(stream) :
           /\ OrderMatters(kmax, centroid_factory, stream, t)
           /\ CentroidSet(fastpair)
                 # CentroidSet(batch(Engine(<< >>, 0), kmax,
                                     centroid_factory, t).eng.pts)

\* C14: gaussian(x, y, sigma) is exp(-||x - y||^2 / (2 * sigma^2)) for every
\* sigma > 0.
C14_GaussianDefinition ==
    op = "gaussian" =>
        kout = KReturned(ExpNeg(FDiv(sqeuclidean(vx, vy),
                                     FMul(2 * Scale,
                                          FMul(bandwidth, bandwidth)))))

\* C15: the distance kernel_dist(gaussian, sigma=...) returns is the
\* three-term value K(x, x) - 2 K(x, y) + K(y, y) of the same kernel and
\* sigma; it is 0 for x = y and never above 2.
C15_ShortcutEquivalence ==
    (op = "kernel_dist" /\ kname = "gaussian") =>
        /\ kout = kernel_dist_general("gaussian", vx, vy, bandwidth)
        /\ vx = vy => kout.val = 0
        /\ ~FLess(2 * Scale, kout.val)

\* the Gaussian distance of two different vectors was taken with a
\* bandwidth other than the default
C15_Witness ==
    /\ op = "kernel_dist"
    /\ kname = "gaussian"
    /\ vx # vy
    /\ bandwidth # DefaultSigma
    /\ kout.err = "none"
    /\ FLess(0, kout.val)
    /\ FLess(kout.val, 2 * Scale)

\* C16: circular(x, y, sigma) returns 0 and raises nothing whenever
\* ||x - y|| >= sigma.
C16_CircularPiecewise ==
    (op = "circular" /\ euclidean(vx, vy) >= bandwidth)
        => kout = KReturned(0)

\* the pairs (i, j), i < j, of stored centroids no other pair is closer than
MinPairs(pts) ==
    {ij \in (1 .. Len(pts)) \X (1 .. Len(pts)) :
        /\ ij[1] < ij[2]
        /\ \A k, l \in 1 .. Len(pts) :
               k < l => ~FLess(dist(pts[k], pts[l]),
                               dist(pts[ij[1]], pts[ij[2]]))}

\* pts with the centroid at j taken out and the one at i, i < j, replaced
\* by the merge of the two
MergedAt(pts, i, j) ==
    [n \in 1 .. Len(pts) - 1 |->
        IF n = i THEN merge(pts[i], pts[j]).val
        ELSE IF n < j THEN pts[n]
        ELSE pts[n + 1]]

\* the lists s and t hold the same centroids, in whatever order
SameCentroids(s, t) ==
    /\ Len(s) = Len(t)
    /\ \E f \in Permutations(1 .. Len(s)) :
           \A i \in 1 .. Len(s) : s[i] = t[f[i]]

\* after is what a cycle for the centroid c makes of before: the move,
\* then the merge of a closest pair of the moved centroids if they are at
\* least k and more than one, then c inserted last (the iteration order of
\* the others is left open)
CycleOf(before, k, c, after) ==
    \E s1 \in {step_one(before, c)} :
        /\ s1.err = "none"
        /\ after # << >>
        /\ after[Len(after)] = c
        /\ IF Len(s1.pts) >= k /\ Len(s1.pts) > 1
           THEN \E ij \in MinPairs(s1.pts) :
                    SameCentroids(after,
                        Append(MergedAt(s1.pts, ij[1], ij[2]), c))
           ELSE after = Append(s1.pts, c)

\* C17: an ingest call that returns has moved, then merged a closest pair
\* of the centroids as moved (the incoming singleton not among them), then
\* inserted the singleton and incremented npoints; an ingest call that
\* raises has not incremented npoints.
C17_StepOrder ==
    [][/\ (op' = "ingest" /\ err' = "none") =>
            /\ npoints' = npoints + 1
            /\ CycleOf(fastpair, kmax,
                       NewOf(centroid_factory, stream'[Len(stream')]),
                       fastpair')
       /\ (op' = "ingest" /\ err' # "none") => npoints' = npoints]_vars

\* an ingest call has merged two centroids and inserted the singleton
C17_Witness ==
    /\ op = "ingest"
    /\ err = "none"
    /\ kmax >= 2
    /\ Len(fastpair) = kmax
    /\ npoints > kmax + 1
    /\ fastpair[Len(fastpair)] = NewOf(centroid_factory, stream[Len(stream)])

\* step one applied to pts for the centroid c: nothing on the empty index,
\* otherwise one centroid at the least distance from c is replaced by its
\* absorb of c and the others stay
MoveEffect(pts, c) ==
    \E s1 \in {step_one(pts, c)} :
        /\ s1.err = "none"
        /\ Len(s1.pts) = Len(pts)
        /\ pts # << >> =>
              \E i \in 1 .. Len(pts) :
                  /\ \A j \in 1 .. Len(pts) :
                         ~FLess(dist(pts[j], c), dist(pts[i], c))
                  /\ s1.pts[i] = add(pts[i], c).val
                  /\ s1.pts[i] # pts[i]
                  /\ \A j \in 1 .. Len(pts) : j # i => s1.pts[j] = pts[j]

\* C18: step one does nothing on the empty index; otherwise it replaces
\* exactly one stored centroid, one nearest to the incoming point, by its
\* absorb of the point, and leaves the others and the count as they are.
C18_MoveEffect ==
    \A p \in Points : MoveEffect(fastpair, NewOf(centroid_factory, p))

\* the last ingest has moved a centroid that is not the first stored one
C18_Witness ==
    /\ op = "ingest"
    /\ err = "none"
    /\ Len(fastpair) >= 3
    /\ fastpair[1].count = 1
    /\ \E i \in 2 .. Len(fastpair) - 1 : fastpair[i].count >= 1

\* the float m lies on the segment between the floats a and b
Between(a, m, b) ==
    \/ ~FLess(m, a) /\ ~FLess(b, m) /\ ~FLess(b, a)
    \/ ~FLess(a, m) /\ ~FLess(m, b) /\ ~FLess(a, b)

\* the absorb of the centroid c by old ends between old and c
AbsorbBetween(old, c) ==
    \E r \in {add(old, c)} :
        /\ r.err = "none"
        /\ r.val.size = FAdd(old.size, kernel(old.center, c.center))
        /\ r.val.count = old.count + 1
        /\ Between(old.center, r.val.center, c.center)

\* C19: in an engine of KernelCentroids, the absorb step one makes for any
\* incoming point adds K(center, point) to the size and 1 to the count and
\* leaves the center on the segment between the old center and the point.
C19_AbsorbTowards ==
    (centroid_factory = "KernelCentroid" /\ fastpair # << >>) =>
        \A p \in Points :
            AbsorbBetween(Nearest(fastpair, NewOf(centroid_factory, p)),
                          NewOf(centroid_factory, p))

\* neither the count nor the size of the centroid c is below that of old
NotBelow(c, old) == c.count >= old.count /\ FGeq(c.size, old.size)

\* the absorb of the point p that step one makes on pts loses no mass
AbsorbKeepsMass(pts, old, p) ==
    \E r \in {add(old, p)} : r.err = "none" /\ NotBelow(r.val, old)

\* the merge of a and b loses no mass
MergeKeepsMass(a, b) ==
    \E m \in {merge(a, b)} :
        m.err = "none" /\ NotBelow(m.val, a) /\ NotBelow(m.val, b)

\* C20: in an engine of KernelCentroids every stored centroid has
\* count >= 0 and size >= 0, and neither the absorb of an incoming point
\* nor the merge of two stored centroids has a count or a size below that
\* of an input.
C20_NonNegativeMass ==
    centroid_factory = "KernelCentroid" =>
        /\ \A i \in 1 .. Len(fastpair) :
               fastpair[i].count >= 0 /\ FGeq(fastpair[i].size, 0)
        /\ \A i, j \in 1 .. Len(fastpair) :
               i # j => MergeKeepsMass(fastpair[i], fastpair[j])
        /\ fastpair # << >> =>
               \A p \in FarPoints :
                   AbsorbKeepsMass(fastpair,
                       Nearest(fastpair, NewOf(centroid_factory, p)),
                       NewOf(centroid_factory, p))

\* C21: after every ingest call of a KernelCentroid engine that returns,
\* the counts of the stored centroids add up to npoints - 1.
C21_CountBookkeeping ==
    (centroid_factory = "KernelCentroid" /\ op = "ingest" /\ err = "none")
        => CountSum(fastpair) = npoints - 1

\* the pair step two merges on pts, if it merges, has a positive combined
\* size
MergeDefined(pts, k) ==
    (Len(pts) >= k /\ Len(pts) > 1) =>
        \E ab \in {closest_pair(pts)[2]} :
            FLess(0, FAdd(ab[1].size, ab[2].size))

\* C22: in an engine of KernelCentroids, whenever step two of a cycle
\* merges, the two sizes add up to more than 0, and no stored centroid has
\* a center that is not a finite point.
C22_MergeDefined ==
    centroid_factory = "KernelCentroid" =>
        /\ \A i \in 1 .. Len(fastpair) : IsFin(fastpair[i].center)
        /\ \A p \in FarPoints :
               \E s1 \in {step_one(fastpair, NewOf(centroid_factory, p))} :
                   s1.err = "none" => MergeDefined(s1.pts, kmax)

\* pts holds a centroid at p that has absorbed no point and merged with none
LiveSingleton(pts, p) ==
    \E i \in 1 .. Len(pts) :
        /\ pts[i].center = p
        /\ pts[i].count = 0
        /\ pts[i].kind = "KernelCentroid" => pts[i].size = 0

\* C23: right after every ingest of a point p that returns, the index holds
\* a centroid whose center is p with count 0 (and size 0 for a
\* KernelCentroid), and p is a member of the engine.
C23_NewestSingleton ==
    (op = "ingest" /\ err = "none") =>
        /\ LiveSingleton(fastpair, stream[Len(stream)])
        /\ contains(fastpair, RawPoint(stream[Len(stream)]))

\* an ingest returned after a move and a merge, and left the new point's
\* singleton next to a centroid that stands for several points
C23_Witness ==
    /\ op = "ingest"
    /\ err = "none"
    /\ Len(fastpair) = kmax
    /\ npoints > kmax + 1
    /\ LiveSingleton(fastpair, stream[Len(stream)])
    /\ \E i \in 1 .. Len(fastpair) : fastpair[i].count >= 2

\* C24: a trim call that returns, returns at least one centroid and no
\* centroid of size 0, so never the singleton of the point ingested last.
C24_TrimShape ==
    (op = "trim" /\ err = "none") =>
        /\ Len(trimmed) >= 1
        /\ \A i \in 1 .. Len(trimmed) : trimmed[i].size # 0

====
